---- MODULE Spec2Model ----
(***************************************************************************)
(* Model of the link-suggestion tool's Document Store (EmbeddingsManager,  *)
(* src/utils/embeddings.py) and Similarity Engine (SimilaritySearcher,     *)
(* src/utils/similarity.py), of the Suggestion Enrichment (LLMProcessor,   *)
(* src/utils/llm_processor.py) and of the ingestion driver                 *)
(* (src/build_database.py).  Spec is the manager and the searcher as the   *)
(* app calls them, IngestSpec the ingestion of a large site through an     *)
(* Embedding Provider that may fail, PipelineSpec the search and           *)
(* enrichment pipeline over a built database, ScrapeSpec the scrape_all    *)
(* coroutine of BlogScraper (src/utils/scraper.py) and its crawl tasks.    *)
(*                                                                         *)
(* Numbers.  Cosine distances and similarities are real numbers in the     *)
(* code.  Every embedding vector of the model has the same integer norm,   *)
(* so a cosine distance is an exact multiple of 1/DistOne and is kept as   *)
(* that integer multiple; a similarity 1 - d/2 is an exact multiple of     *)
(* 1/SimOne with SimOne = 2 * DistOne and is kept as that multiple.        *)
(***************************************************************************)
EXTENDS Integers, Sequences, FiniteSets, TLC

VARIABLES
    collection,   \* the persisted Chroma collection: documents in insertion order
    vectorstore,  \* EmbeddingsManager.vectorstore: "None" or "Chroma" (a handle)
    result        \* the last operation, its arguments and what the caller got;
                  \* for scrape_all, the coroutine's locals while it runs

vars == <<collection, vectorstore, result>>

----------------------------------------------------------------------------
(* Bounds of the model *)

MaxDocs == 3     \* documents the collection may hold
MaxPosts == 2    \* posts handed to one ingestion call
MaxK == 2        \* largest explicit k / top_k of a query
MaxChars == 4    \* explicit max_chars of a context query
MaxBatches == 2  \* full chunks of the largest post list of an ingestion run
MaxUrls == 7     \* URLs handed to one scrape_all call

(* Program constants *)

TOP_K_RESULTS == 10
FINAL_SUGGESTIONS == 5
DEFAULT_MAX_CHARS == 500
batch_size == 10
MAX_CONCURRENT_REQUESTS == 5
MAX_CONTENT_LENGTH == 10000

----------------------------------------------------------------------------
(* The Embedding Provider and the metric *)

RECURSIVE DotFrom(_, _, _)
DotFrom(u, v, i) ==
    IF i > Len(u) THEN 0 ELSE u[i] * v[i] + DotFrom(u, v, i + 1)

Dot(u, v) == DotFrom(u, v, 1)

\* Every vector the provider returns has the norm of UnitVec.
UnitVec == <<5, 0, 0, 0>>

\* The number 1.0 as a distance (a multiple of 1/DistOne).
DistOne == Dot(UnitVec, UnitVec)

\* The number 1.0 as a similarity (a multiple of 1/SimOne).
SimOne == 2 * DistOne

\* Mutant of MIN_SIMILARITY_THRESHOLD: 0.25.
QuarterThreshold == SimOne \div 4

\* Config.MIN_SIMILARITY_THRESHOLD = 0.5, as a similarity.
MIN_SIMILARITY_THRESHOLD == SimOne \div 2

\* The posts the scraper may hand to ingestion: PostA and PostD carry the
\* same title and content under different URLs, PostA and PostA2 the same
\* URL with different content (a page scraped again after an edit).
PostA  == [url |-> "a", title |-> "A", content |-> "xa"]
PostB  == [url |-> "b", title |-> "B", content |-> "y"]
PostC  == [url |-> "c", title |-> "C", content |-> "zcc"]
PostD  == [url |-> "d", title |-> "A", content |-> "xa"]
PostA2 == [url |-> "a", title |-> "A", content |-> "w"]

Posts == {PostA, PostB, PostC, PostD, PostA2}

\* A post under the URL of PostB whose text lies further from PostA's.
PostB8 == [url |-> "b", title |-> "B", content |-> "v"]

\* The posts of a three-document site, with either text for "b".
ScenarioPosts == {PostA, PostB, PostB8, PostC}

\* Identities a caller may ask about: the stored ones and one never stored.
Urls == {p.url : p \in Posts} \cup {"unknown-id"}

\* embed(text): a fixed function of the text, of fixed length and norm.
Embed(text) ==
    CASE text = "A\n\nxa"  -> <<5, 0, 0, 0>>
      [] text = "B\n\ny"   -> <<4, 3, 0, 0>>
      [] text = "C\n\nzcc" -> <<-2, 4, 2, 1>>
      [] text = "A\n\nw"   -> <<0, 0, 0, 5>>
      [] text = "B\n\nv"   -> <<1, 2, 2, 4>>
      [] OTHER             -> UnitVec

\* Cosine distance 1 - cos(u, v) of two vectors of the common norm, as a
\* multiple of 1/DistOne: between 0 and 2 * DistOne.
CosineDistance(u, v) == DistOne - Dot(u, v)

----------------------------------------------------------------------------
(* Document Store: ingestion *)

\* Mutant of CreateDocument: the title is kept out of the stored text.
CreateDocumentContentOnly(post) ==
    [page_content |-> post.content,
     metadata |-> [url |-> post.url, title |-> post.title,
                   source |-> "blog_post"]]

\* create_documents: one Document per post, in order.
CreateDocument(post) ==
    [page_content |-> post.title \o "\n\n" \o post.content,
     metadata |-> [url |-> post.url, title |-> post.title,
                   source |-> "blog_post"]]

create_documents(posts) == [i \in 1..Len(posts) |-> CreateDocument(posts[i])]

Min(a, b) == IF a < b THEN a ELSE b

\* Python's None where a number is optional (k, top_k).
NoneArg == 0 - 1

\* Chroma.from_documents on the persist directory and collection name of
\* Config: opens the collection, keeping what it holds, and inserts the batch.
FromDocuments(coll, batch) == coll \o batch

\* vectorstore.add_documents: inserts the batch after what is stored.
AddDocuments(coll, batch) == coll \o batch

\* Mutant of Batch: documents[i:i + batch_size + 1], a chunk that runs one
\* document into the next chunk.
BatchOneOver(documents, i) ==
    SubSeq(documents, i + 1, Min(i + batch_size + 1, Len(documents)))

\* documents[i:i + batch_size] with a 0-based i.
Batch(documents, i) ==
    SubSeq(documents, i + 1, Min(i + batch_size, Len(documents)))

\* The chunk loop of build_vectorstore from 0-based offset i: the state
\* <<vectorstore, collection>> after every remaining chunk is inserted.
RECURSIVE BuildLoop(_, _, _, _)
BuildLoop(vs, coll, documents, i) ==
    IF i >= Len(documents) THEN <<vs, coll>>
    ELSE BuildLoop("Chroma",
                   IF vs = "None" THEN FromDocuments(coll, Batch(documents, i))
                   ELSE AddDocuments(coll, Batch(documents, i)),
                   documents, i + batch_size)

\* build_vectorstore(posts) with show_progress = True, its default.
build_vectorstore(vs, coll, posts) ==
    BuildLoop(vs, coll, create_documents(posts), 0)

\* The truth values Python may give self.vectorstore: None is false and a
\* handle on a collection with documents is true. A handle on an empty
\* collection is false when the installed Chroma class counts its documents
\* for len() and true otherwise; the repository does not decide which.
TruthValues(vs, coll) ==
    IF vs = "None" THEN {FALSE}
    ELSE IF Len(coll) > 0 THEN {TRUE}
    ELSE BOOLEAN

\* add_posts(new_posts): <<vectorstore, collection>> afterwards; truthy is
\* the truth value of self.vectorstore.
add_posts(vs, coll, truthy, new_posts) ==
    IF ~truthy
    THEN build_vectorstore(vs, coll, new_posts)
    ELSE <<vs, AddDocuments(coll, create_documents(new_posts))>>

\* load_vectorstore: the handle is stored in the manager before the count
\* is looked at; the value returned is the handle or None.
load_vectorstore(coll) ==
    [vs |-> "Chroma", returned |-> IF Len(coll) > 0 THEN "Chroma" ELSE "None"]

\* get_or_create_vectorstore(posts) on a fresh manager: what it returns or
\* raises, and <<vectorstore, collection>> afterwards.
get_or_create_vectorstore(coll, posts) ==
    LET existing == load_vectorstore(coll) IN
    IF existing.returned # "None"
    THEN [kind |-> "return", state |-> <<existing.vs, coll>>]
    ELSE IF Len(posts) > 0
    THEN [kind |-> "return",
          state |-> build_vectorstore(existing.vs, coll, posts)]
    ELSE [kind |-> "ValueError", state |-> <<existing.vs, coll>>]

\* initialize_database(posts, force_rebuild): a new manager (vectorstore
\* None) over the persisted collection.
initialize_database(coll, posts, force_rebuild) ==
    IF force_rebuild /\ Len(posts) > 0
    THEN [kind |-> "return", state |-> build_vectorstore("None", coll, posts)]
    ELSE get_or_create_vectorstore(coll, posts)

----------------------------------------------------------------------------
(* Document Store: ingestion with an Embedding Provider that may fail *)

\* Chroma embeds the texts of a batch with one embed_documents call and
\* writes the batch after the call has returned: when the call raises,
\* nothing of the batch is written and, in from_documents, no handle is
\* assigned. fail is the number of the call of this run that raises (no
\* call raises when fail is 0 or beyond the calls made); calls lists the
\* batches handed to the provider so far.

\* Mutant of BuildLoopWithProvider: the first document of the batch whose
\* call raises is written all the same.
RECURSIVE BuildLoopWritingFailedBatch(_, _, _, _, _, _)
BuildLoopWritingFailedBatch(vs, coll, documents, i, fail, calls) ==
    IF i >= Len(documents)
    THEN [kind |-> "return", vs |-> vs, coll |-> coll, calls |-> calls]
    ELSE LET batch == Batch(documents, i)
             made == Append(calls, batch)
         IN  IF Len(made) = fail
             THEN [kind |-> "raise", vs |-> vs,
                   coll |-> Append(coll, Head(batch)), calls |-> made]
             ELSE BuildLoopWritingFailedBatch(
                      "Chroma",
                      IF vs = "None" THEN FromDocuments(coll, batch)
                      ELSE AddDocuments(coll, batch),
                      documents, i + batch_size, fail, made)

\* The chunk loop of build_vectorstore from 0-based offset i: it has no try
\* and no retry, so the first call that raises ends it, with the chunks
\* before it written.
RECURSIVE BuildLoopWithProvider(_, _, _, _, _, _)
BuildLoopWithProvider(vs, coll, documents, i, fail, calls) ==
    IF i >= Len(documents)
    THEN [kind |-> "return", vs |-> vs, coll |-> coll, calls |-> calls]
    ELSE LET batch == Batch(documents, i)
             made == Append(calls, batch)
         IN  IF Len(made) = fail
             THEN [kind |-> "raise", vs |-> vs, coll |-> coll,
                   calls |-> made]
             ELSE BuildLoopWithProvider(
                      "Chroma",
                      IF vs = "None" THEN FromDocuments(coll, batch)
                      ELSE AddDocuments(coll, batch),
                      documents, i + batch_size, fail, made)

\* build_vectorstore(posts), show_progress = True.
build_vectorstore_with_provider(vs, coll, posts, fail) ==
    BuildLoopWithProvider(vs, coll, create_documents(posts), 0, fail, <<>>)

\* add_posts(new_posts): without a vectorstore it builds one; otherwise all
\* documents go to add_documents as one batch (an empty list gives the
\* provider nothing to embed).
add_posts_with_provider(vs, coll, truthy, new_posts, fail) ==
    LET documents == create_documents(new_posts) IN
    IF ~truthy
    THEN build_vectorstore_with_provider(vs, coll, new_posts, fail)
    ELSE IF documents = <<>>
    THEN [kind |-> "return", vs |-> vs, coll |-> coll, calls |-> <<>>]
    ELSE IF fail = 1
    THEN [kind |-> "raise", vs |-> vs, coll |-> coll,
          calls |-> <<documents>>]
    ELSE [kind |-> "return", vs |-> vs,
          coll |-> AddDocuments(coll, documents), calls |-> <<documents>>]

\* build_database.py: exit(1) when nothing was scraped; otherwise
\* initialize_database(posts, force_rebuild = True), that is
\* build_vectorstore on a new manager, inside the one try of the script,
\* whose except prints the error and calls exit(1).
build_database(coll, posts, fail) ==
    IF Len(posts) = 0
    THEN [kind |-> "exit", code |-> 1, coll |-> coll, calls |-> <<>>,
          caught |-> FALSE]
    ELSE LET built == build_vectorstore_with_provider("None", coll, posts,
                                                      fail)
         IN  [kind |-> "exit",
              code |-> IF built.kind = "raise" THEN 1 ELSE 0,
              coll |-> built.coll, calls |-> built.calls,
              caught |-> built.kind = "raise"]

----------------------------------------------------------------------------
(* Document Store: queries *)

\* vectorstore.get(): every stored document without its vector, as two
\* lists in scan order, the texts and the metadata.
vectorstore_get(coll) ==
    [documents |-> [i \in 1..Len(coll) |-> coll[i].page_content],
     metadatas |-> [i \in 1..Len(coll) |-> coll[i].metadata]]

\* Index of the first stored document whose metadata url is query_url, or 0
\* (the scan of search_similar, get_post_context and validate_url).
FirstIndex(coll, url) ==
    IF \E i \in 1..Len(coll) : coll[i].metadata.url = url
    THEN CHOOSE i \in 1..Len(coll) :
            /\ coll[i].metadata.url = url
            /\ \A j \in 1..(i - 1) : coll[j].metadata.url # url
    ELSE 0

\* The raw score the store gives a stored document for the query vector:
\* the cosine distance of the two embeddings.
Score(query, doc) == CosineDistance(query, Embed(doc.page_content))

\* hits, which is ordered nearest first, with hit put in its place: after
\* every hit that is as near or nearer, so that documents at equal distance
\* come in insertion order.
RECURSIVE InsertHit(_, _)
InsertHit(hits, hit) ==
    IF hits = <<>> THEN <<hit>>
    ELSE IF Head(hits).score <= hit.score
    THEN <<Head(hits)>> \o InsertHit(Tail(hits), hit)
    ELSE <<hit>> \o hits

\* The first i stored documents, each with its score, nearest first.
RECURSIVE Ranked(_, _, _)
Ranked(coll, query, i) ==
    IF i = 0 THEN <<>>
    ELSE InsertHit(Ranked(coll, query, i - 1),
                   [doc |-> coll[i], score |-> Score(query, coll[i])])

\* vectorstore.similarity_search_with_score(text, k = n): the n nearest
\* stored documents (all of them when fewer are stored), nearest first,
\* each with its cosine distance.
similarity_search_with_score(coll, text, n) ==
    SubSeq(Ranked(coll, Embed(text), Len(coll)), 1, Min(n, Len(coll)))

\* Mutant of Similarity: the raw cosine similarity 1 - score.
RawCosineSimilarity(score) == SimOne - 2 * score

\* similarity = 1 - (score / 2), as a multiple of 1/SimOne.
Similarity(score) == SimOne - score

\* Mutant of PassesThreshold: an exclusive boundary.
PassesThresholdStrict(similarity) == similarity > MIN_SIMILARITY_THRESHOLD

\* similarity >= Config.MIN_SIMILARITY_THRESHOLD
PassesThreshold(similarity) == similarity >= MIN_SIMILARITY_THRESHOLD

\* Mutant of FilterLoop: the first result is taken to be the query post and
\* dropped, and no identity is compared.
RECURSIVE FilterLoopSkipFirst(_, _, _)
FilterLoopSkipFirst(results, query_url, i) ==
    IF i > Len(results) THEN <<>>
    ELSE LET doc == results[i].doc
             similarity == Similarity(results[i].score)
             rest == FilterLoopSkipFirst(results, query_url, i + 1)
         IN  IF i = 1 THEN rest
             ELSE IF PassesThreshold(similarity)
             THEN <<[url |-> doc.metadata.url,
                     title |-> doc.metadata.title,
                     content |-> doc.page_content,
                     similarity |-> similarity]>> \o rest
             ELSE rest

\* The filter loop of search_similar over results[i..]: the query post is
\* skipped, the others are converted and kept when they pass the threshold.
RECURSIVE FilterLoop(_, _, _)
FilterLoop(results, query_url, i) ==
    IF i > Len(results) THEN <<>>
    ELSE LET doc == results[i].doc
             similarity == Similarity(results[i].score)
             rest == FilterLoop(results, query_url, i + 1)
         IN  IF doc.metadata.url = query_url THEN rest
             ELSE IF PassesThreshold(similarity)
             THEN <<[url |-> doc.metadata.url,
                     title |-> doc.metadata.title,
                     content |-> doc.page_content,
                     similarity |-> similarity]>> \o rest
             ELSE rest

\* Mutant of InsertPost: post goes before the entries of equal similarity,
\* which is what sorting ascending and reversing the list does.
RECURSIVE InsertPostBeforeEqual(_, _)
InsertPostBeforeEqual(sorted, post) ==
    IF sorted = <<>> THEN <<post>>
    ELSE IF Head(sorted).similarity > post.similarity
    THEN <<Head(sorted)>> \o InsertPostBeforeEqual(Tail(sorted), post)
    ELSE <<post>> \o sorted

\* sorted, which is ordered by descending similarity, with post put in its
\* place: after every entry of the same or a higher similarity.
RECURSIVE InsertPost(_, _)
InsertPost(sorted, post) ==
    IF sorted = <<>> THEN <<post>>
    ELSE IF Head(sorted).similarity >= post.similarity
    THEN <<Head(sorted)>> \o InsertPost(Tail(sorted), post)
    ELSE <<post>> \o sorted

\* similar_posts.sort(key = similarity, reverse = True), over the first i
\* entries: Python's sort is stable, also in reverse, so entries of equal
\* similarity keep the order they had.
RECURSIVE SortFirst(_, _)
SortFirst(similar_posts, i) ==
    IF i = 0 THEN <<>>
    ELSE InsertPost(SortFirst(similar_posts, i - 1), similar_posts[i])

SortBySimilarity(similar_posts) == SortFirst(similar_posts, Len(similar_posts))

\* Mutant of Limit: similar_posts[:k + 1].
LimitOneMore(similar_posts, k) ==
    SubSeq(similar_posts, 1, Min(k + 1, Len(similar_posts)))

\* similar_posts[:k] for k >= 0.
Limit(similar_posts, k) == SubSeq(similar_posts, 1, Min(k, Len(similar_posts)))

\* search_similar(query_url, k): what it returns or raises.
search_similar(truthy, coll, query_url, k0) ==
    LET k == IF k0 = NoneArg THEN TOP_K_RESULTS ELSE k0
        idx == FirstIndex(coll, query_url)
    IN  IF ~truthy
        THEN [kind |-> "ValueError", msg |-> "Vectorstore not initialized"]
        ELSE IF idx = 0 \/ coll[idx].page_content = ""
        THEN [kind |-> "ValueError", msg |-> "URL not found in database"]
        ELSE LET results == similarity_search_with_score(
                                coll, coll[idx].page_content, k + 1)
                 similar_posts == FilterLoop(results, query_url, 1)
             IN  [kind |-> "return",
                  value |-> Limit(SortBySimilarity(similar_posts), k)]

----------------------------------------------------------------------------
(* Similarity Engine *)

\* Mutant of AddRanking: enumerate(results) without its start, ranks from 0.
AddRankingFromZero(results) ==
    [i \in 1..Len(results) |->
        [url |-> results[i].url, title |-> results[i].title,
         content |-> results[i].content,
         similarity |-> results[i].similarity, rank |-> i - 1]]

\* for i, result in enumerate(results, 1): result['rank'] = i
AddRanking(results) ==
    [i \in 1..Len(results) |->
        [url |-> results[i].url, title |-> results[i].title,
         content |-> results[i].content,
         similarity |-> results[i].similarity, rank |-> i]]

\* find_similar_posts(query_url, top_k): every exception of the search is
\* caught and an empty list returned. caught is what was caught, if
\* anything; truthy is the truth value of the manager's vectorstore.
find_similar_posts(truthy, coll, query_url, top_k0) ==
    LET top_k == IF top_k0 = NoneArg THEN FINAL_SUGGESTIONS ELSE top_k0
        found == search_similar(truthy, coll, query_url, top_k)
    IN  IF found.kind = "return"
        THEN [kind |-> "return", caught |-> "nothing",
              value |-> IF found.value = <<>> THEN <<>>
                        ELSE AddRanking(found.value)]
        ELSE [kind |-> "return", caught |-> found.msg, value |-> <<>>]

\* Mutant of Snippet: a text of exactly max_chars characters is cut as well.
SnippetFromMaxChars(content, max_chars) ==
    IF Len(content) >= max_chars
    THEN SubSeq(content, 1, max_chars) \o "..."
    ELSE content

\* content[:max_chars] + "..." if len(content) > max_chars else content
Snippet(content, max_chars) ==
    IF Len(content) > max_chars
    THEN SubSeq(content, 1, max_chars) \o "..."
    ELSE content

\* get_post_context(url, max_chars): none says that Python's None is
\* returned, which is also what the except branch returns when there is no
\* vectorstore.
get_post_context(vs, coll, url, max_chars) ==
    IF vs = "None"
    THEN [kind |-> "return", caught |-> "AttributeError", none |-> TRUE,
          value |-> ""]
    ELSE IF FirstIndex(coll, url) = 0
    THEN [kind |-> "return", caught |-> "nothing", none |-> TRUE,
          value |-> ""]
    ELSE [kind |-> "return", caught |-> "nothing", none |-> FALSE,
          value |-> Snippet(coll[FirstIndex(coll, url)].page_content,
                            max_chars)]

\* validate_url(url)
validate_url(vs, coll, url) ==
    IF vs = "None" THEN [kind |-> "return", caught |-> "AttributeError",
                         value |-> FALSE]
    ELSE [kind |-> "return", caught |-> "nothing",
          value |-> FirstIndex(coll, url) # 0]

\* Mutant of get_all_urls: an identity is listed once, where the scan first
\* meets it.
get_all_urls_once(vs, coll) ==
    IF vs = "None" THEN [kind |-> "return", caught |-> "AttributeError",
                         value |-> <<>>]
    ELSE [kind |-> "return", caught |-> "nothing",
          value |-> LET first == SelectSeq(
                            [i \in 1..Len(coll) |-> i],
                            LAMBDA i : FirstIndex(coll, coll[i].metadata.url)
                                           = i)
                    IN  [j \in 1..Len(first) |->
                            coll[first[j]].metadata.url]]

\* get_all_urls(): the url of every stored document, in scan order (urls
\* that are None or empty are dropped; create_documents never stores one
\* unless the post's url is empty).
get_all_urls(vs, coll) ==
    IF vs = "None" THEN [kind |-> "return", caught |-> "AttributeError",
                         value |-> <<>>]
    ELSE [kind |-> "return", caught |-> "nothing",
          value |-> LET urls == [i \in 1..Len(coll) |-> coll[i].metadata.url]
                    IN  SelectSeq(urls, LAMBDA url : url # "")]

----------------------------------------------------------------------------
(* Suggestion Enrichment (LLMProcessor) *)

\* Python's str.strip(chars): the characters of chars removed from both ends.
RECURSIVE LStrip(_, _)
LStrip(str, chars) ==
    IF Len(str) > 0 /\ SubSeq(str, 1, 1) \in chars
    THEN LStrip(SubSeq(str, 2, Len(str)), chars)
    ELSE str

RECURSIVE RStrip(_, _)
RStrip(str, chars) ==
    IF Len(str) > 0 /\ SubSeq(str, Len(str), Len(str)) \in chars
    THEN RStrip(SubSeq(str, 1, Len(str) - 1), chars)
    ELSE str

Strip(str, chars) == RStrip(LStrip(str, chars), chars)

Whitespace == {" ", "\n", "\t"}

\* What one self.llm.invoke call may do: raise, or answer with some content.
\* The answer is the model's to choose and does not follow from the prompt.
LLMOutcomes ==
    {[raises |-> TRUE, content |-> ""],
     [raises |-> FALSE, content |-> " \"read 'more'\"\n"]}

REASON_FALLBACK ==
    "These posts cover related topics and would benefit from internal linking."

\* generate_reason: the stripped answer, or the fixed sentence when the call
\* (or the formatting of its prompt) raises.
generate_reason(outcome) ==
    IF outcome.raises THEN REASON_FALLBACK
    ELSE Strip(outcome.content, Whitespace)

\* generate_anchor_text: the answer stripped of white space and of quotes
\* around it, or the title of the similar post when the call raises.
generate_anchor_text(outcome, similar_title) ==
    IF outcome.raises THEN similar_title
    ELSE Strip(Strip(Strip(outcome.content, Whitespace), {"\""}), {"'"})

\* process_similar_post: a copy of similar_post with the two keys set. The
\* excerpts it cuts go into the prompts only; outcomes are the outcomes of
\* its two calls of the language model.
process_similar_post(target_post, similar_post, outcomes) ==
    LET reason == generate_reason(outcomes.reason)
        anchor_text == generate_anchor_text(outcomes.anchor,
                                            similar_post.title)
    IN  [key \in DOMAIN similar_post \cup {"reason", "anchor_text"} |->
            CASE key = "reason" -> reason
              [] key = "anchor_text" -> anchor_text
              [] OTHER -> similar_post[key]]

\* Mutant of process_all_suggestions: a suggestion whose reason could not be
\* generated is left out.
RECURSIVE process_all_suggestions_skipping(_, _, _)
process_all_suggestions_skipping(target_post, similar_posts, outcomes) ==
    IF similar_posts = <<>> THEN <<>>
    ELSE (IF Head(outcomes).reason.raises THEN <<>>
          ELSE <<process_similar_post(target_post, Head(similar_posts),
                                      Head(outcomes))>>)
         \o process_all_suggestions_skipping(target_post,
                                             Tail(similar_posts),
                                             Tail(outcomes))

\* process_all_suggestions: every similar post processed, in order;
\* outcomes[i] are the outcomes of the calls made for similar_posts[i].
RECURSIVE process_all_suggestions(_, _, _)
process_all_suggestions(target_post, similar_posts, outcomes) ==
    IF similar_posts = <<>> THEN <<>>
    ELSE <<process_similar_post(target_post, Head(similar_posts),
                                Head(outcomes))>>
         \o process_all_suggestions(target_post, Tail(similar_posts),
                                    Tail(outcomes))

----------------------------------------------------------------------------
(* The state machine *)

\* Lists of at most MaxPosts posts that still fit a collection of n documents.
PostLists(n) == UNION {[1..m -> Posts] : m \in 0..Min(MaxPosts, MaxDocs - n)}

\* The k / top_k a caller may pass: a number or nothing (None).
Ks == (0..MaxK) \cup {NoneArg}

\* The max_chars a caller may pass: a small one or the default.
MaxCharsArgs == {MaxChars, DEFAULT_MAX_CHARS}

Init ==
    /\ collection = <<>>
    /\ vectorstore = "None"
    /\ result = [op |-> "new"]

BuildVectorstore ==
    \E posts \in PostLists(Len(collection)) :
        /\ LET after == build_vectorstore(vectorstore, collection, posts)
           IN  /\ vectorstore' = after[1]
               /\ collection' = after[2]
        /\ result' = [op |-> "build_vectorstore", posts |-> posts]

AddPosts ==
    \E posts \in PostLists(Len(collection)),
       truthy \in TruthValues(vectorstore, collection) :
        /\ LET after == add_posts(vectorstore, collection, truthy, posts)
           IN  /\ vectorstore' = after[1]
               /\ collection' = after[2]
        /\ result' = [op |-> "add_posts", posts |-> posts]

LoadVectorstore ==
    /\ vectorstore' = load_vectorstore(collection).vs
    /\ result' = [op |-> "load_vectorstore",
                  returned |-> load_vectorstore(collection).returned]
    /\ UNCHANGED collection

\* initialize_database: when it raises, no manager is handed out.
InitializeDatabase ==
    \E posts \in PostLists(Len(collection)), force_rebuild \in BOOLEAN :
        /\ LET done == initialize_database(collection, posts, force_rebuild)
           IN  /\ vectorstore' = IF done.kind = "return" THEN done.state[1]
                                 ELSE "None"
               /\ collection' = done.state[2]
               /\ result' = [op |-> "initialize_database", posts |-> posts,
                             kind |-> done.kind]

\* Mutant of FindSimilarPosts: the query post is deleted from the collection
\* to keep it out of the neighbours, and never put back.
FindSimilarPostsDroppingQuery ==
    \E query_url \in Urls, top_k \in Ks,
       truthy \in TruthValues(vectorstore, collection) :
        /\ result' = [op |-> "find_similar_posts", query_url |-> query_url,
                      top_k |-> top_k,
                      got |-> find_similar_posts(truthy, collection,
                                                 query_url, top_k)]
        /\ collection' = SelectSeq(collection,
                              LAMBDA doc : doc.metadata.url # query_url)
        /\ UNCHANGED vectorstore

FindSimilarPosts ==
    \E query_url \in Urls, top_k \in Ks,
       truthy \in TruthValues(vectorstore, collection) :
        /\ result' = [op |-> "find_similar_posts", query_url |-> query_url,
                      top_k |-> top_k,
                      got |-> find_similar_posts(truthy, collection,
                                                 query_url, top_k)]
        /\ UNCHANGED <<collection, vectorstore>>

\* Mutant of GetPostContext: the snippet is written back as the stored text.
GetPostContextTruncatingStore ==
    \E url \in Urls, max_chars \in MaxCharsArgs :
        LET got == get_post_context(vectorstore, collection, url, max_chars)
        IN  /\ result' = [op |-> "get_post_context", url |-> url,
                          max_chars |-> max_chars, got |-> got]
            /\ collection' =
                  IF got.none THEN collection
                  ELSE [collection EXCEPT
                           ![FirstIndex(collection, url)].page_content =
                               got.value]
            /\ UNCHANGED vectorstore

GetPostContext ==
    \E url \in Urls, max_chars \in MaxCharsArgs :
        /\ result' = [op |-> "get_post_context", url |-> url,
                      max_chars |-> max_chars,
                      got |-> get_post_context(vectorstore, collection, url,
                                               max_chars)]
        /\ UNCHANGED <<collection, vectorstore>>

ValidateUrl ==
    \E url \in Urls :
        /\ result' = [op |-> "validate_url", url |-> url,
                      got |-> validate_url(vectorstore, collection, url)]
        /\ UNCHANGED <<collection, vectorstore>>

GetAllUrls ==
    /\ result' = [op |-> "get_all_urls",
                  got |-> get_all_urls(vectorstore, collection)]
    /\ UNCHANGED <<collection, vectorstore>>

Next ==
    \/ BuildVectorstore
    \/ AddPosts
    \/ LoadVectorstore
    \/ InitializeDatabase
    \/ FindSimilarPosts
    \/ GetPostContext
    \/ ValidateUrl
    \/ GetAllUrls

Spec == Init /\ [][Next]_vars

----------------------------------------------------------------------------
(* Ingestion runs over a site of many posts, the provider failing at will *)

\* The i-th post of the site.
NumberedPost(i) ==
    [url |-> "p" \o ToString(i), title |-> "T", content |-> ToString(i)]

\* How many posts a run is handed: none, or a whole number of chunks with
\* or without one post more.
InputSizes ==
    {0} \cup
    {full * batch_size + more : full \in 1..MaxBatches, more \in {0, 1}}

\* The documents the store may hold.
MaxStored == MaxBatches * batch_size + 2

\* The call of a run that raises: none, or one of the calls it may make.
FailAt == 0..(MaxBatches + 1)

SitePosts(n) == [i \in 1..n |-> NumberedPost(i)]

BuildVectorstoreWithProvider ==
    \E n \in InputSizes, fail \in FailAt :
        /\ Len(collection) + n <= MaxStored
        /\ LET done == build_vectorstore_with_provider(
                           vectorstore, collection, SitePosts(n), fail)
           IN  /\ vectorstore' = done.vs
               /\ collection' = done.coll
               /\ result' = [op |-> "build_vectorstore",
                             posts |-> SitePosts(n), fail |-> fail,
                             kind |-> done.kind, calls |-> done.calls]

AddPostsWithProvider ==
    \E n \in InputSizes, fail \in FailAt,
       truthy \in TruthValues(vectorstore, collection) :
        /\ Len(collection) + n <= MaxStored
        /\ LET done == add_posts_with_provider(
                           vectorstore, collection, truthy, SitePosts(n),
                           fail)
           IN  /\ vectorstore' = done.vs
               /\ collection' = done.coll
               /\ result' = [op |-> "add_posts",
                             posts |-> SitePosts(n), fail |-> fail,
                             kind |-> done.kind, calls |-> done.calls]

\* A run of build_database.py: the process and its manager end with it.
BuildDatabase ==
    \E n \in InputSizes, fail \in FailAt :
        /\ Len(collection) + n <= MaxStored
        /\ LET done == build_database(collection, SitePosts(n), fail)
           IN  /\ vectorstore' = "None"
               /\ collection' = done.coll
               /\ result' = [op |-> "build_database",
                             posts |-> SitePosts(n), fail |-> fail,
                             kind |-> done.kind, code |-> done.code,
                             caught |-> done.caught, calls |-> done.calls]

IngestNext ==
    \/ BuildVectorstoreWithProvider
    \/ AddPostsWithProvider
    \/ BuildDatabase

IngestSpec == Init /\ [][IngestNext]_vars

----------------------------------------------------------------------------
(* BlogScraper.scrape_all: one coroutine and the crawl tasks it gathers *)

\* Mutant of BatchPlaces: urls[i:i + max_concurrent + 1].
BatchPlacesOneMore(urls, i) ==
    (i + 1)..Min(i + MAX_CONCURRENT_REQUESTS + 1, Len(urls))

\* The 1-based places in urls of batch = urls[i:i + max_concurrent].
BatchPlaces(urls, i) ==
    (i + 1)..Min(i + MAX_CONCURRENT_REQUESTS, Len(urls))

\* What a crawl task may end with: a result with success set, a result
\* without, or an exception (which gather hands back as a value). A result
\* with success set carries the page's title and markdown.
TaskOutcomes == {"success", "unsuccessful", "exception"}

CrawledPage == [metadata_title |-> " Post ", markdown |-> " body\n"]

\* The post made of a successful result: the stripped title and the
\* stripped markdown, cut to max_content_length characters.
ScrapedPost(url, page) ==
    LET title == Strip(page.metadata_title, Whitespace)
        content == Strip(page.markdown, Whitespace)
    IN  [url |-> url,
         title |-> IF title # "" THEN title ELSE "Untitled",
         content |-> IF Len(content) > MAX_CONTENT_LENGTH
                     THEN SubSeq(content, 1, MAX_CONTENT_LENGTH)
                     ELSE content]

\* The tasks of the batch at offset i created and handed to asyncio.gather:
\* all of them are in flight from here on.
GatherBatch(frame, i) ==
    [frame EXCEPT
        !.pc = "gather",
        !.i = i,
        !.status = [j \in 1..Len(frame.urls) |->
                       IF j \in BatchPlaces(frame.urls, i) THEN "in_flight"
                       ELSE frame.status[j]]]

\* The finally clause is entered: crawler.close() is awaited.
EnterFinally(frame, raising) ==
    [frame EXCEPT !.pc = "close", !.raising = raising]

\* The for statement at offset i: the next batch, or the end of the loop.
ForBatch(frame, i) ==
    IF i < Len(frame.urls) THEN GatherBatch(frame, i)
    ELSE EnterFinally(frame, FALSE)

\* The loop over zip(tasks, batch_results) from place j to place last.
RECURSIVE ProcessResults(_, _, _)
ProcessResults(frame, j, last) ==
    IF j > last THEN frame
    ELSE ProcessResults(
             IF frame.status[j] = "success"
             THEN [frame EXCEPT
                      !.results = Append(@, ScrapedPost(frame.urls[j],
                                                        CrawledPage)),
                      !.success_count = @ + 1]
             ELSE [frame EXCEPT !.fail_count = @ + 1],
             j + 1, last)

\* The URL lists fetch_sitemap_urls may hand over.
UrlLists == {[j \in 1..n |-> "u" \o ToString(j)] : n \in 0..MaxUrls}

Scraping == result.op = "scrape_all" /\ result.pc # "done"

\* scrape_all(urls) is called: the crawler is created and start() awaited.
ScrapeAll ==
    /\ ~Scraping
    /\ \E urls \in UrlLists :
           result' = [op |-> "scrape_all", pc |-> "start", urls |-> urls,
                      i |-> 0,
                      status |-> [j \in 1..Len(urls) |-> "waiting"],
                      results |-> <<>>, success_count |-> 0,
                      fail_count |-> 0, crawler |-> "created",
                      raising |-> FALSE, kind |-> "running"]
    /\ UNCHANGED <<collection, vectorstore>>

\* crawler.start() returns: the try block is entered and the first batch,
\* if there is one, gathered.
CrawlerStarts ==
    /\ Scraping
    /\ result.pc = "start"
    /\ result' = ForBatch([result EXCEPT !.crawler = "started"], 0)
    /\ UNCHANGED <<collection, vectorstore>>

\* crawler.start() raises: the await stands before the try, so scrape_all
\* raises without reaching the finally clause.
CrawlerStartFails ==
    /\ Scraping
    /\ result.pc = "start"
    /\ result' = [result EXCEPT !.pc = "done", !.kind = "raise",
                                 !.raising = TRUE]
    /\ UNCHANGED <<collection, vectorstore>>

\* One crawl task in flight ends, in any order among those in flight.
TaskFinishes ==
    /\ Scraping
    /\ result.pc = "gather"
    /\ \E j \in 1..Len(result.urls), outcome \in TaskOutcomes :
           /\ result.status[j] = "in_flight"
           /\ result' = [result EXCEPT !.status[j] = outcome]
    /\ UNCHANGED <<collection, vectorstore>>

\* Every task of the batch has ended and gather returns: the results are
\* counted, then the coroutine sleeps when more URLs are left and leaves
\* the loop otherwise.
GatherReturns ==
    /\ Scraping
    /\ result.pc = "gather"
    /\ \A j \in 1..Len(result.urls) : result.status[j] # "in_flight"
    /\ LET counted == ProcessResults(
                          result, result.i + 1,
                          Min(result.i + MAX_CONCURRENT_REQUESTS,
                              Len(result.urls)))
       IN  result' = IF result.i + MAX_CONCURRENT_REQUESTS < Len(result.urls)
                     THEN [counted EXCEPT !.pc = "sleep"]
                     ELSE ForBatch(counted,
                                   result.i + MAX_CONCURRENT_REQUESTS)
    /\ UNCHANGED <<collection, vectorstore>>

\* asyncio.sleep returns: the next batch is gathered.
SleepReturns ==
    /\ Scraping
    /\ result.pc = "sleep"
    /\ result' = ForBatch(result, result.i + MAX_CONCURRENT_REQUESTS)
    /\ UNCHANGED <<collection, vectorstore>>

\* The coroutine is cancelled while it awaits gather or sleep (asyncio.run
\* on an interrupt): the tasks in flight are cancelled with it and the
\* finally clause is entered with the exception pending.
Interrupt ==
    /\ Scraping
    /\ result.pc \in {"gather", "sleep"}
    /\ result' = EnterFinally(
                     [result EXCEPT
                         !.status = [j \in 1..Len(result.urls) |->
                                        IF result.status[j] = "in_flight"
                                        THEN "cancelled"
                                        ELSE result.status[j]]],
                     TRUE)
    /\ UNCHANGED <<collection, vectorstore>>

\* crawler.close() returns: scrape_all returns results, or the pending
\* exception goes on to the caller.
CrawlerCloses ==
    /\ Scraping
    /\ result.pc = "close"
    /\ result' = [result EXCEPT
                     !.crawler = "closed", !.pc = "done",
                     !.kind = IF result.raising THEN "raise" ELSE "return"]
    /\ UNCHANGED <<collection, vectorstore>>

ScrapeNext ==
    \/ ScrapeAll
    \/ CrawlerStarts
    \/ CrawlerStartFails
    \/ TaskFinishes
    \/ GatherReturns
    \/ SleepReturns
    \/ Interrupt
    \/ CrawlerCloses

ScrapeSpec == Init /\ [][ScrapeNext]_vars

----------------------------------------------------------------------------
(* The suggestion pipeline of the app over a built database *)

\* The post lists build_database.py may have scraped from the site.
ScenarioLists == UNION {[1..m -> ScenarioPosts] : m \in 1..MaxDocs}

\* The database as build_database.py leaves it on a fresh directory.
PipelineInit ==
    /\ \E posts \in ScenarioLists :
           LET done == initialize_database(<<>>, posts, TRUE)
           IN  /\ vectorstore = done.state[1]
               /\ collection = done.state[2]
    /\ result = [op |-> "new"]

\* The app after a search that found something (app.py 100-119): the target
\* post is put together and the suggestions are enriched.
ProcessAllSuggestions ==
    /\ result.op = "find_similar_posts"
    /\ result.got.value # <<>>
    /\ LET context == get_post_context(vectorstore, collection,
                                       result.query_url, DEFAULT_MAX_CHARS)
           idx == FirstIndex(collection, result.query_url)
           target_post ==
               [title |-> IF idx # 0 /\ collection[idx].metadata.title # ""
                          THEN collection[idx].metadata.title
                          ELSE result.query_url,
                content |-> IF context.none THEN "" ELSE context.value]
           similar_posts == result.got.value
       IN  \E outcomes \in [1..Len(similar_posts) ->
                               [reason : LLMOutcomes, anchor : LLMOutcomes]] :
               result' = [op |-> "process_all_suggestions",
                          target_post |-> target_post,
                          similar_posts |-> similar_posts,
                          outcomes |-> outcomes,
                          got |-> process_all_suggestions(
                                      target_post, similar_posts, outcomes)]
    /\ UNCHANGED <<collection, vectorstore>>

PipelineNext ==
    \/ FindSimilarPosts
    \/ ProcessAllSuggestions

PipelineSpec == PipelineInit /\ [][PipelineNext]_vars

----------------------------------------------------------------------------
(* What the properties speak about *)

IsFind == result.op = "find_similar_posts"

QueryOps == {"find_similar_posts", "get_post_context", "validate_url",
             "get_all_urls"}

\* The list the last find_similar_posts call returned.
Out == result.got.value

\* The number of suggestions the last find_similar_posts call asked for.
AskedK == IF result.top_k = NoneArg THEN FINAL_SUGGESTIONS ELSE result.top_k

\* The last operation was a find_similar_posts call whose identity resolved
\* against an initialised store, so that the neighbour query ran.
Searched == IsFind /\ result.got.caught = "nothing"

\* What the neighbour query of the last find_similar_posts call returned.
Hits ==
    similarity_search_with_score(
        collection,
        collection[FirstIndex(collection, result.query_url)].page_content,
        AskedK + 1)

\* The similarity 1 - d/2 of a raw distance d, as a multiple of 1/SimOne,
\* worked out from the two units: sim / SimOne = 1 - (d / DistOne) / 2.
HalvedFromOne(d) == (SimOne * (2 * DistOne - d)) \div (2 * DistOne)

\* The hits that are not the query identity and whose similarity is at or
\* above the threshold, in the order the neighbour query returned them.
Candidates ==
    LET kept == SelectSeq(Hits, LAMBDA h :
                    /\ h.doc.metadata.url # result.query_url
                    /\ HalvedFromOne(h.score) >= MIN_SIMILARITY_THRESHOLD)
    IN  [j \in 1..Len(kept) |->
            [url |-> kept[j].doc.metadata.url,
             title |-> kept[j].doc.metadata.title,
             content |-> kept[j].doc.page_content,
             similarity |-> HalvedFromOne(kept[j].score)]]

\* An entry of the returned list without its rank.
Unranked(e) ==
    [url |-> e.url, title |-> e.title, content |-> e.content,
     similarity |-> e.similarity]

\* How many stored documents carry the identity url.
Stored(url) ==
    Cardinality({i \in 1..Len(collection) : collection[i].metadata.url = url})

----------------------------------------------------------------------------
(* C1 *)

\* C1: find_similar_posts called on an initialised store with an identity
\* that no stored document carries reports a failure (UnknownIdentity) to
\* its caller; it does not return a list.
C1_UnknownIdentityIsReported ==
    (IsFind /\ vectorstore # "None" /\ Len(collection) > 0
            /\ Stored(result.query_url) = 0)
        => result.got.kind = "UnknownIdentity"

(* C2 *)

\* C2: a query against an unbuilt store (no vectorstore) or an empty one
\* (no documents) reports a failure (StoreUninitialized) to its caller; it
\* does not return a value such as an empty list.
C2_EmptyStoreIsReported ==
    (result.op \in QueryOps /\ (vectorstore = "None" \/ collection = <<>>))
        => result.got.kind = "StoreUninitialized"

(* C3 *)

\* C3: no entry of the list find_similar_posts returns carries the query
\* identity, wherever the query post stands among the neighbours and however
\* often the identity is stored.
C3_NoSelfMatch ==
    IsFind => \A i \in 1..Len(Out) : Out[i].url # result.query_url

\* The identity is stored twice, the nearest hit is another post, and a
\* suggestion is returned.
C3_Witness ==
    /\ Searched
    /\ Stored(result.query_url) >= 2
    /\ Hits[1].doc.metadata.url # result.query_url
    /\ Len(Out) >= 1

(* C4 *)

\* C4: in every returned list each similarity lies in [0, 1], similarity
\* does not increase with rank, and the ranks are 1, 2, ..., n.
C4_BoundedSortedRanked ==
    IsFind =>
        /\ \A i \in 1..Len(Out) : Out[i].similarity \in 0..SimOne
        /\ \A i \in 1..Len(Out) : Out[i].rank = i
        /\ \A i \in 1..(Len(Out) - 1) :
               Out[i].similarity >= Out[i + 1].similarity

\* A list of two suggestions of different similarity is returned.
C4_Witness ==
    /\ IsFind
    /\ Len(Out) >= 2
    /\ Out[1].similarity > Out[2].similarity

(* C5 *)

\* C5: the threshold is inclusive: no returned entry is below it, a hit
\* below it is absent from the list, and a hit other than the query post
\* whose similarity equals it is in the list (whenever the list has room
\* for every hit that passes).
C5_ThresholdInclusive ==
    Searched =>
        /\ \A i \in 1..Len(Out) :
               Out[i].similarity >= MIN_SIMILARITY_THRESHOLD
        /\ \A j \in 1..Len(Hits) :
               HalvedFromOne(Hits[j].score) < MIN_SIMILARITY_THRESHOLD =>
                   \A i \in 1..Len(Out) :
                       ~ /\ Out[i].url = Hits[j].doc.metadata.url
                         /\ Out[i].content = Hits[j].doc.page_content
        /\ \A j \in 1..Len(Hits) :
               ( /\ Hits[j].doc.metadata.url # result.query_url
                 /\ HalvedFromOne(Hits[j].score) = MIN_SIMILARITY_THRESHOLD
                 /\ Len(Candidates) <= AskedK )
               => \E i \in 1..Len(Out) :
                      /\ Out[i].url = Hits[j].doc.metadata.url
                      /\ Out[i].content = Hits[j].doc.page_content
                      /\ Out[i].similarity = MIN_SIMILARITY_THRESHOLD

\* One hit sits exactly on the threshold and is returned, another is below
\* it and was dropped.
C5_Witness ==
    /\ Searched
    /\ \E i \in 1..Len(Out) : Out[i].similarity = MIN_SIMILARITY_THRESHOLD
    /\ \E j \in 1..Len(Hits) :
           /\ Hits[j].doc.metadata.url # result.query_url
           /\ HalvedFromOne(Hits[j].score) < MIN_SIMILARITY_THRESHOLD

(* C6 *)

\* C6: every returned entry's similarity is 1 - d/2 for the raw distance d
\* the store returned for that document; distance 0 gives 1.0, distance 1
\* gives 0.5 and distance 2 gives 0.0.
C6_SimilarityIsOneMinusHalfDistance ==
    /\ Similarity(0) = SimOne
    /\ 2 * Similarity(DistOne) = SimOne
    /\ Similarity(2 * DistOne) = 0
    /\ Searched =>
          \A i \in 1..Len(Out) :
              \E j \in 1..Len(Hits) :
                  /\ Hits[j].doc.metadata.url = Out[i].url
                  /\ Hits[j].doc.page_content = Out[i].content
                  /\ 2 * DistOne * Out[i].similarity =
                         SimOne * (2 * DistOne - Hits[j].score)

\* A suggestion at a distance strictly between 0 and 1 is returned.
C6_Witness ==
    /\ Searched
    /\ \E i \in 1..Len(Out) :
           /\ Out[i].similarity < SimOne
           /\ Out[i].similarity > MIN_SIMILARITY_THRESHOLD

(* C7 *)

\* C7: returned entries of equal similarity stand in the order in which the
\* neighbour query returned them: for each similarity value, the returned
\* entries of that value are the first of the candidates of that value, in
\* the candidates' order.
C7_TiesKeepRetrievalOrder ==
    Searched =>
        \A v \in {Out[i].similarity : i \in 1..Len(Out)} :
            LET outV == SelectSeq(Out, LAMBDA e : e.similarity = v)
                candV == SelectSeq(Candidates, LAMBDA c : c.similarity = v)
            IN  /\ Len(outV) <= Len(candV)
                /\ \A i \in 1..Len(outV) : Unranked(outV[i]) = candV[i]

\* Two suggestions for different identities tie.
C7_Witness ==
    /\ Searched
    /\ \E i, j \in 1..Len(Out) :
           /\ i < j
           /\ Out[i].similarity = Out[j].similarity
           /\ Out[i].url # Out[j].url

(* C8 *)

\* seq ordered by descending similarity, entries of equal similarity in the
\* order they have in seq: the entry at place r is the one with r - 1
\* entries before it.
StableDescending(seq) ==
    LET n == Len(seq)
        Before(j, i) ==
            \/ seq[j].similarity > seq[i].similarity
            \/ seq[j].similarity = seq[i].similarity /\ j < i
        Place(i) == 1 + Cardinality({j \in 1..n : Before(j, i)})
    IN  [r \in 1..n |-> seq[CHOOSE i \in 1..n : Place(i) = r]]

\* C8: find_similar_posts returns at most k entries: the first k (or all, if
\* fewer) of the candidates that are not the query identity and pass the
\* threshold, in sorted order, with rank 1, 2, ... in that order.
C8_FirstKOfSortedCandidates ==
    /\ IsFind => Len(Out) <= AskedK
    /\ Searched =>
          /\ Len(Out) = Min(AskedK, Len(Candidates))
          /\ \A i \in 1..Len(Out) :
                 /\ Out[i].rank = i
                 /\ Unranked(Out[i]) = StableDescending(Candidates)[i]

\* More candidates pass than were asked for, and the list is cut to k.
C8_Witness ==
    /\ Searched
    /\ AskedK >= 1
    /\ Len(Candidates) > AskedK
    /\ Len(Out) = AskedK

(* C9 *)

C10_QueriesLeaveStoreAlone ==
    [][ result'.op \in QueryOps => collection' = collection ]_vars

\* A context query has cut the text of a stored document to max_chars.
C10_Witness ==
    /\ result.op = "get_post_context"
    /\ ~result.got.none
    /\ Len(result.got.value) > result.max_chars
    /\ Len(collection) >= 2

(* C11 *)

\* The place in the full scan of the document a build_vectorstore call wrote
\* for its i-th post: the call's documents are the last ones stored.
WrittenAt(i) == Len(collection) - Len(result.posts) + i

\* url is resolved as a query target: the search finds its stored text and
\* runs the neighbour query.
Resolves(url) ==
    /\ vectorstore = "Chroma"
    /\ \A truthy \in TruthValues(vectorstore, collection) :
           find_similar_posts(truthy, collection, url, NoneArg).caught
               = "nothing"

ScenarioStore ==
    /\ Len(collection) = 3
    /\ Stored("a") = 1
    /\ Stored("b") = 1
    /\ Stored("c") = 1

\* The cosine distance of the stored text of url from the stored text of "a".
DistanceFromA(url) ==
    CosineDistance(
        Embed(collection[FirstIndex(collection, "a")].page_content),
        Embed(collection[FirstIndex(collection, url)].page_content))

\* The last call was find_similar_posts("a", 2).
ScenarioQuery ==
    /\ IsFind
    /\ result.query_url = "a"
    /\ result.top_k = 2

\* The one-element list [{id: "b", similarity: 0.9, rank: 1}].
OnlyBAtNineTenths ==
    /\ Len(Out) = 1
    /\ Out[1].url = "b"
    /\ 10 * Out[1].similarity = 9 * SimOne
    /\ Out[1].rank = 1

\* C12 as the specification words it, the distances 0.2, 0.8, 1.4 read in
\* the order of A, B, C: with B at cosine distance 0.8 and C at 1.4 from A,
\* find_similar_posts("a", 2) returns exactly [{id: "b", similarity: 0.9,
\* rank: 1}].
C12_ScenarioAsWorded ==
    ( /\ ScenarioStore
      /\ ScenarioQuery
      /\ 5 * DistanceFromA("b") = 4 * DistOne
      /\ 5 * DistanceFromA("c") = 7 * DistOne )
    => OnlyBAtNineTenths

\* C12, amended: with B at cosine distance 0.2 and C at 1.4 from A (A itself
\* at 0), threshold 0.5, find_similar_posts("a", 2) returns exactly
\* [{id: "b", similarity: 0.9, rank: 1}]; C, of similarity 0.3, is excluded
\* and one of the two slots stays empty.
C12_ScenarioNearB ==
    ( /\ ScenarioStore
      /\ ScenarioQuery
      /\ 5 * DistanceFromA("b") = DistOne
      /\ 5 * DistanceFromA("c") = 7 * DistOne )
    => /\ OnlyBAtNineTenths
       /\ 10 * Similarity(DistanceFromA("c")) = 3 * SimOne

\* The scenario has been played: B at 0.2, C at 1.4, and the query made.
C12_Witness ==
    /\ ScenarioStore
    /\ ScenarioQuery
    /\ 5 * DistanceFromA("b") = DistOne
    /\ 5 * DistanceFromA("c") = 7 * DistOne
    /\ Len(Out) = 1

(* C13 *)

\* C13: in every reachable state no two stored documents share an identity
\* (URL), whatever build_vectorstore, add_posts and initialize_database
\* calls were made, repeated ingestion and forced rebuilds included.
C13_IdentityUnique ==
    \A i, j \in 1..Len(collection) :
        collection[i].metadata.url = collection[j].metadata.url => i = j

(* C14 *)

\* The text stored for url: that of the first document of the scan that
\* carries it.
StoredText(url) == collection[FirstIndex(collection, url)].page_content

\* C14: get_post_context(url, max_chars) returns None when no stored
\* document carries url; otherwise the stored text itself when it has at
\* most max_chars characters, and its first max_chars characters followed by
\* "..." when it has more.
C14_ContextSnippet ==
    result.op = "get_post_context" =>
        IF Stored(result.url) = 0 THEN result.got.none
        ELSE LET text == StoredText(result.url)
                 n == result.max_chars
                 value == result.got.value
             IN  /\ ~result.got.none
                 /\ Len(text) <= n => value = text
                 /\ Len(text) > n =>
                        /\ Len(value) = n + 3
                        /\ SubSeq(value, 1, n) = SubSeq(text, 1, n)
                        /\ SubSeq(value, n + 1, n + 3) = "..."

\* A stored text of exactly max_chars characters was asked for and came back
\* whole.
C14_Witness ==
    /\ result.op = "get_post_context"
    /\ Stored(result.url) >= 1
    /\ Len(StoredText(result.url)) = result.max_chars
    /\ result.got.value = StoredText(result.url)

(* C15 *)

\* C15: get_all_urls returns one entry per stored document, the i-th entry
\* being the identity of the i-th document of the store's full scan
\* (insertion order, not sorted, an identity stored twice listed twice).
C15_AllIdentitiesInScanOrder ==
    result.op = "get_all_urls" =>
        /\ Len(result.got.value) = Len(collection)
        /\ \A i \in 1..Len(collection) :
               result.got.value[i] = collection[i].metadata.url

\* The list came back for a store filled by several inserts, out of
\* alphabetical order and with an identity stored twice.
C15_Witness ==
    /\ result.op = "get_all_urls"
    /\ result.got.value = <<"c", "a", "a">>

(* C16 *)

\* C16: process_all_suggestions returns one entry per candidate it was
\* given, in the same order, each with the candidate's identity, title,
\* text, similarity and rank as given; where the language model failed, the
\* entry is there all the same, with the fixed sentence as its reason or the
\* candidate's title as its anchor text.
C16_EnrichmentKeepsCandidates ==
    result.op = "process_all_suggestions" =>
        /\ Len(result.got) = Len(result.similar_posts)
        /\ \A i \in 1..Len(result.similar_posts) :
               LET given == result.similar_posts[i]
                   enriched == result.got[i]
               IN  /\ enriched.url = given.url
                   /\ enriched.title = given.title
                   /\ enriched.content = given.content
                   /\ enriched.similarity = given.similarity
                   /\ enriched.rank = given.rank
                   /\ DOMAIN enriched =
                          DOMAIN given \cup {"reason", "anchor_text"}
                   /\ result.outcomes[i].reason.raises =>
                          enriched.reason = REASON_FALLBACK
                   /\ result.outcomes[i].anchor.raises =>
                          enriched.anchor_text = given.title

\* Two candidates were enriched; the language model failed for the reason
\* of the first and answered for the second.
C16_Witness ==
    /\ result.op = "process_all_suggestions"
    /\ Len(result.got) = 2
    /\ result.outcomes[1].reason.raises
    /\ ~result.outcomes[2].reason.raises
    /\ result.got[2].reason # REASON_FALLBACK

(* C17, C18, C19: what an ingestion run did *)

\* The batches of a list of batches, one after the other.
RECURSIVE Flatten(_)
Flatten(batches) ==
    IF batches = <<>> THEN <<>>
    ELSE Head(batches) \o Flatten(Tail(batches))

\* A call of the Embedding Provider raised during the last ingestion run.
ProviderFailed == result.fail \in 1..Len(result.calls)

\* doc is in one of the batches.
HandedIn(doc, batches) ==
    \E c \in 1..Len(batches) :
        \E k \in 1..Len(batches[c]) : batches[c][k] = doc

(* C17 *)

\* C17: a run of the ingestion driver (build_database.py) in which an
\* embedding call fails for good (its retries used up) goes on with the
\* remaining documents: every document outside the failed batch is still
\* handed to the provider, so that one failing batch does not abort the run.
C17_IngestionSurvivesFailure ==
    (result.op = "build_database" /\ ProviderFailed) =>
        LET failed == result.calls[result.fail]
            others == [c \in 1..(Len(result.calls) - 1) |->
                          IF c < result.fail THEN result.calls[c]
                          ELSE result.calls[c + 1]]
        IN  \A i \in 1..Len(result.posts) :
                LET doc == CreateDocument(result.posts[i])
                IN  ~HandedIn(doc, <<failed>>) => HandedIn(doc, others)

(* C18 *)

\* C18: when an embedding call raises during build_vectorstore or
\* add_posts, the call raises to its caller, the failed call being the last
\* one made and its batch handed over once only (no retry); the store then
\* holds what it held before followed by the whole batches whose calls had
\* returned, every document of them complete, and nothing of the failed
\* batch or of the batches after it.
C18_FailurePropagatesBatchAtomic ==
    [][ result'.op \in {"build_vectorstore", "add_posts"} =>
          LET calls == result'.calls
              failed == result'.fail \in 1..Len(calls)
              completed == IF failed THEN SubSeq(calls, 1, Len(calls) - 1)
                           ELSE calls
          IN  /\ failed <=> result'.kind = "raise"
              /\ failed =>
                    /\ result'.fail = Len(calls)
                    /\ \A c \in 1..(Len(calls) - 1) :
                           calls[c] # calls[Len(calls)]
              /\ collection' = collection \o Flatten(completed)
              /\ \A j \in (Len(collection) + 1)..Len(collection') :
                     \E i \in 1..Len(result'.posts) :
                         /\ collection'[j].page_content =
                                result'.posts[i].title \o "\n\n"
                                    \o result'.posts[i].content
                         /\ collection'[j].metadata.url = result'.posts[i].url
                         /\ collection'[j].metadata.title
                                = result'.posts[i].title
        ]_vars

\* The second call of a build_vectorstore run raised and the ten documents
\* of the first chunk are what the store holds.
C18_Witness ==
    /\ result.op = "build_vectorstore"
    /\ result.kind = "raise"
    /\ Len(result.calls) = 2
    /\ Len(collection) = 10

(* C19 *)

\* C19: build_vectorstore hands its documents to the store in chunks of at
\* least one and at most 10 documents that follow one another in input
\* order, no document left out or handed over twice; after a run that
\* returned, the chunks make up the whole input and the store has grown by
\* exactly the input's documents, in input order.
C19_ConsecutiveBoundedChunks ==
    [][ result'.op = "build_vectorstore" =>
          LET calls == result'.calls
              documents == create_documents(result'.posts)
          IN  /\ \A c \in 1..Len(calls) : Len(calls[c]) \in 1..10
              /\ Len(Flatten(calls)) <= Len(documents)
              /\ Flatten(calls)
                     = SubSeq(documents, 1, Len(Flatten(calls)))
              /\ result'.kind = "return" =>
                    /\ Flatten(calls) = documents
                    /\ Len(collection')
                           = Len(collection) + Len(result'.posts)
                    /\ collection' = collection \o documents
        ]_vars

\* Twenty-one posts went in as three chunks, the last of one document.
C19_Witness ==
    /\ result.op = "build_vectorstore"
    /\ result.kind = "return"
    /\ Len(result.calls) = 3
    /\ Len(result.calls[3]) = 1
    /\ Len(collection) = 21

(* C20 *)

\* The places in the store of the documents that carry another identity
\* than the query's and whose similarity to the query text is at or above
\* the threshold.
Qualifying ==
    {i \in 1..Len(collection) :
        /\ collection[i].metadata.url # result.query_url
        /\ HalvedFromOne(Score(Embed(StoredText(result.query_url)),
                               collection[i]))
               >= MIN_SIMILARITY_THRESHOLD}

\* C20: find_similar_posts(q, k) returns fewer than k entries only when
\* fewer than k stored documents of another identity than q reach the
\* threshold, also when q is stored more than once or a tie puts another
\* document before the query's own.
C20_FewerOnlyWhenFewerQualify ==
    (Searched /\ Len(Out) < AskedK) => Cardinality(Qualifying) < AskedK

(* C21 *)

\* The places of the URLs whose crawl task is in flight.
InFlight ==
    {j \in 1..Len(result.urls) : result.status[j] = "in_flight"}

\* The number of the batch the URL at place j belongs to, from 0.
BatchOf(j) == (j - 1) \div 5

\* The places of the URLs whose task ended with one of outcomes.
Ended(outcomes) ==
    {j \in 1..Len(result.urls) : result.status[j] \in outcomes}

\* At most five tasks are in flight; while a task of a batch is in flight
\* every task of the batches before has ended and no task of a batch after
\* it has started; the results list is as long as success_count says; and
\* when scrape_all returns, every URL has been counted once, as a success
\* or as a failure, the results being the posts of the successes in order.
ScrapeBatchesAndCounts ==
    result.op = "scrape_all" =>
        /\ Cardinality(InFlight) <= 5
        /\ \A j \in InFlight :
               \A h \in 1..Len(result.urls) :
                   /\ BatchOf(h) < BatchOf(j) =>
                          result.status[h] \in TaskOutcomes
                   /\ BatchOf(h) > BatchOf(j) =>
                          result.status[h] = "waiting"
        /\ Len(result.results) = result.success_count
        /\ result.success_count + result.fail_count <= Len(result.urls)
        /\ (result.pc = "done" /\ result.kind = "return") =>
               /\ result.success_count + result.fail_count
                      = Len(result.urls)
               /\ result.success_count = Cardinality(Ended({"success"}))
               /\ result.fail_count
                      = Cardinality(Ended({"unsuccessful", "exception"}))
               /\ LET urls == [k \in 1..Len(result.results) |->
                                  result.results[k].url]
                  IN  urls = SelectSeq(result.urls, LAMBDA url :
                                 \E j \in Ended({"success"}) :
                                     result.urls[j] = url)

\* C21 as it is worded: the batching and counting above, and the crawler
\* closed on every path on which scrape_all exits.
C21_ClosedOnEveryExit ==
    /\ ScrapeBatchesAndCounts
    /\ (result.op = "scrape_all" /\ result.pc = "done") =>
           result.crawler = "closed"

\* C21, amended: the batching and counting above; the crawler is closed on
\* every path that leaves the try block (return, exception, cancellation
\* while a batch is gathered or slept on); when crawler.start() raises,
\* scrape_all raises with no task started and without calling close().
C21_ClosedOnceStarted ==
    /\ ScrapeBatchesAndCounts
    /\ (result.op = "scrape_all" /\ result.pc = "done") =>
           \/ result.crawler = "closed"
           \/ /\ result.crawler = "created"
              /\ result.kind = "raise"
              /\ \A j \in 1..Len(result.urls) :
                     result.status[j] = "waiting"

\* Seven URLs went through two batches with successes, unsuccessful results
\* and exceptions among them, and scrape_all returned.
C21_Witness ==
    /\ result.op = "scrape_all"
    /\ result.pc = "done"
    /\ result.kind = "return"
    /\ Len(result.urls) = 7
    /\ result.crawler = "closed"
    /\ result.success_count >= 2
    /\ Ended({"unsuccessful"}) # {}
    /\ Ended({"exception"}) # {}

====
